---- MODULE Spec2Model ----
(***************************************************************************)
(* Chunked fixed-element-size stack of 582Docs_Assignment3/stack.cc.       *)
(*                                                                         *)
(* The BLI_Stack struct is the variable `stack`; the heap of StackChunk    *)
(* blocks is `heap` (chunk id -> [next, data]); `freed` holds the ids      *)
(* already passed to free().  Chunk ids are never reused, so a second      *)
(* free of the same block or a use of a freed block is visible.  A chunk's *)
(* data is kept per slot offset: data[o] is the element whose bytes start  *)
(* at byte o; offsets never written are absent (indeterminate bytes,       *)
(* read as Uninit).                                                        *)
(*                                                                         *)
(* The build modelled is the one with assert() enabled: a failed assert    *)
(* ends the program (status "aborted").  An access outside the block that  *)
(* malloc returned, or through a null chunk pointer, is undefined          *)
(* behaviour: `ub` is raised, the bytes of such a write are lost and the   *)
(* bytes of such a read are any value.                                     *)
(*                                                                         *)
(* `shadow` is the stack the caller believes in: one entry per element     *)
(* pushed and not yet removed, with the value and the slot push gave it.   *)
(* Spec follows every interleaving of the API up to the first misuse or    *)
(* undefined behaviour; SpecRun follows pushes onto the fresh stack and    *)
(* then pops, through undefined behaviour as well.  SpecNoMem is Spec with  *)
(* malloc allowed to return null: neither malloc result is tested, so the  *)
(* store through the null pointer either faults (status "crashed") or is   *)
(* lost and the function carries on.                                       *)
(***************************************************************************)
EXTENDS Integers, Sequences, FiniteSets, TLC

VARIABLES stack, heap, freed, status, ub, badfree, shadow, misuse, hist, pushed, popped, out

vars == <<stack, heap, freed, status, ub, badfree, shadow, misuse, hist, pushed, popped, out>>

(* ---------------------------- bounds ---------------------------------- *)
\* chunk_size arguments 0..MaxChunkArg, 0 asking for the default
MaxChunkArg == 3
\* elements on the stack at once, in Spec and in SpecRun
MaxElems == 3
RunElems == 5
\* blocks malloc hands out in one run of Spec
MaxAllocs == 2

(* ------------------------ program constants ---------------------------- *)
\* nullptr
NULL == 0
\* indeterminate contents of memory that was never written
Uninit == 0
\* size_t arithmetic is modulo SizeMod (a 16-bit size_t)
SizeMod == 65536
\* sizeof(StackChunk) and offsetof(StackChunk, data) of struct StackChunk, with
\* 4-byte pointers: next at 0, data[1] at 4, padded to 8
SizeofStackChunk == 8
OffsetofData == 4
\* 1024 * elem_size default chunk size
DefaultChunkElems == 1024

\* the inputs: element sizes, chunk_size arguments, element values, and the
\* values a read of memory that is not the stack's can deliver
ElemSizes == {0, 1, 2}
ChunkArgs == 0..MaxChunkArg
Values == {1, 2}
Garbage == {Uninit} \cup Values

\* bytes of data[] inside the block malloc(sizeof(StackChunk) + chunk_size - 1)
DataBytes(chunk_size) == SizeofStackChunk + chunk_size - 1 - OffsetofData

\* the elem_size bytes at data[off] lie inside the block
InBlock(s, off) == off + s.elem_size <= DataBytes(s.chunk_size)

\* the machine state the operations work on
Machine ==
  [stack |-> stack, heap |-> heap, freed |-> freed, status |-> status, ub |-> ub,
   badfree |-> badfree]

\* BLI_stack_new_ex: a handle with no chunk; assert(elem_size > 0) is the
\* status Init gives the run
BLI_stack_new_ex(elem_size, chunk_size) ==
  [elem_size |-> elem_size,
   chunk_size |-> IF chunk_size > 0 THEN chunk_size ELSE DefaultChunkElems * elem_size,
   chunk_index |-> 0,
   element_count |-> 0,
   top_chunk |-> NULL]

\* BLI_stack_new: the default chunk size, passed explicitly
BLI_stack_new(elem_size) == BLI_stack_new_ex(elem_size, DefaultChunkElems * elem_size)

\* malloc of a chunk: a block id never handed out before
NewChunk(m) == Cardinality(DOMAIN m.heap) + Cardinality(m.freed) + 1

\* number of blocks malloc has handed out
NumAllocated(m) == Cardinality(DOMAIN m.heap) + Cardinality(m.freed)

\* free(chunk): the block leaves the heap; freeing a block twice is undefined
FreeChunk(m, c) ==
  IF c \in DOMAIN m.heap
    THEN [m EXCEPT !.heap = [x \in (DOMAIN m.heap) \ {c} |-> m.heap[x]],
                   !.freed = @ \cup {c}]
    ELSE [m EXCEPT !.ub = TRUE, !.badfree = TRUE]

\* the bytes of the slot at data[off] of chunk c
ReadSlot(m, c, off) ==
  IF off \in DOMAIN m.heap[c].data THEN m.heap[c].data[off] ELSE Uninit

\* memcpy(&chunk->data[off], src, elem_size)
WriteSlot(m, c, off, v) ==
  IF c # NULL /\ c \in DOMAIN m.heap /\ InBlock(m.stack, off)
    THEN [m EXCEPT !.heap[c].data = (off :> v) @@ @]
    ELSE [m EXCEPT !.ub = TRUE]

\* BLI_stack_push_r that starts a new chunk one slot before the head is full
Mut_push_r_GrowsEarly(m) ==
  LET s == m.stack
      grow == s.top_chunk = NULL \/ s.chunk_index + s.elem_size >= s.chunk_size
      id == NewChunk(m)
      h1 == IF grow
              THEN (id :> [next |-> s.top_chunk, data |-> <<>>]) @@ m.heap
              ELSE m.heap
      top1 == IF grow THEN id ELSE s.top_chunk
      ci1 == IF grow THEN 0 ELSE s.chunk_index
  IN [m |-> [m EXCEPT !.heap = h1,
                      !.stack = [s EXCEPT !.top_chunk = top1,
                                          !.chunk_index = (ci1 + s.elem_size) % SizeMod,
                                          !.element_count = (@ + 1) % SizeMod]],
      ptr |-> [chunk |-> top1, off |-> ci1]]

\* BLI_stack_push_r that also allocates when the head chunk is empty
Mut_push_r_AllocsOnSpent(m) ==
  LET s == m.stack
      grow == s.top_chunk = NULL \/ s.chunk_index = s.chunk_size \/ s.chunk_index = 0
      id == NewChunk(m)
      h1 == IF grow
              THEN (id :> [next |-> s.top_chunk, data |-> <<>>]) @@ m.heap
              ELSE m.heap
      top1 == IF grow THEN id ELSE s.top_chunk
      ci1 == IF grow THEN 0 ELSE s.chunk_index
  IN [m |-> [m EXCEPT !.heap = h1,
                      !.stack = [s EXCEPT !.top_chunk = top1,
                                          !.chunk_index = (ci1 + s.elem_size) % SizeMod,
                                          !.element_count = (@ + 1) % SizeMod]],
      ptr |-> [chunk |-> top1, off |-> ci1]]

\* BLI_stack_push_r that restarts a full head chunk at offset 0 instead of
\* allocating a new one
Mut_push_r_ReusesFullChunk(m) ==
  LET s == m.stack
      grow == s.top_chunk = NULL
      id == NewChunk(m)
      h1 == IF grow
              THEN (id :> [next |-> s.top_chunk, data |-> <<>>]) @@ m.heap
              ELSE m.heap
      top1 == IF grow THEN id ELSE s.top_chunk
      ci1 == IF grow \/ s.chunk_index = s.chunk_size THEN 0 ELSE s.chunk_index
  IN [m |-> [m EXCEPT !.heap = h1,
                      !.stack = [s EXCEPT !.top_chunk = top1,
                                          !.chunk_index = (ci1 + s.elem_size) % SizeMod,
                                          !.element_count = (@ + 1) % SizeMod]],
      ptr |-> [chunk |-> top1, off |-> ci1]]

\* BLI_stack_push_r: reserve the next slot, growing by one chunk when needed
BLI_stack_push_r(m) ==
  LET s == m.stack
      grow == s.top_chunk = NULL \/ s.chunk_index = s.chunk_size
      id == NewChunk(m)
      h1 == IF grow
              THEN (id :> [next |-> s.top_chunk, data |-> <<>>]) @@ m.heap
              ELSE m.heap
      top1 == IF grow THEN id ELSE s.top_chunk
      ci1 == IF grow THEN 0 ELSE s.chunk_index
  IN [m |-> [m EXCEPT !.heap = h1,
                      !.stack = [s EXCEPT !.top_chunk = top1,
                                          !.chunk_index = (ci1 + s.elem_size) % SizeMod,
                                          !.element_count = (@ + 1) % SizeMod]],
      ptr |-> [chunk |-> top1, off |-> ci1]]

\* BLI_stack_push: push_r, then copy the element into the slot
BLI_stack_push(m, src) ==
  LET r == BLI_stack_push_r(m)
  IN [m |-> WriteSlot(r.m, r.ptr.chunk, r.ptr.off, src), ptr |-> r.ptr]

\* BLI_stack_push_r when malloc (line 58) returns null: new_chunk->next is
\* stored through the null pointer; if that does not fault, null becomes
\* top_chunk and the slot returned is &((StackChunk *)0)->data[0]
BLI_stack_push_r_nomem(m, fault) ==
  IF fault
    THEN [m |-> [m EXCEPT !.status = "crashed", !.ub = TRUE],
          ptr |-> [chunk |-> NULL, off |-> 0]]
    ELSE [m |-> [m EXCEPT !.ub = TRUE,
                          !.stack.top_chunk = NULL,
                          !.stack.chunk_index = m.stack.elem_size % SizeMod,
                          !.stack.element_count = (@ + 1) % SizeMod],
          ptr |-> [chunk |-> NULL, off |-> 0]]

\* BLI_stack_push when malloc returns null: the memcpy goes to the null slot
BLI_stack_push_nomem(m, src, fault) ==
  LET r == BLI_stack_push_r_nomem(m, fault)
  IN IF fault THEN r
     ELSE [m |-> WriteSlot(r.m, r.ptr.chunk, r.ptr.off, src), ptr |-> r.ptr]

\* BLI_stack_pop that frees the head as soon as the retraction empties it
Mut_pop_EagerFree(m, dst, g) ==
  LET s == m.stack
      spent == s.chunk_index = 0
      old == s.top_chunk
  IN IF spent /\ old = NULL
       THEN [m |-> [m EXCEPT !.status = "aborted"], val |-> Uninit, wild |-> FALSE]
       ELSE
         LET m1 == IF spent
                     THEN [FreeChunk(m, old) EXCEPT
                             !.stack.top_chunk = m.heap[old].next,
                             !.stack.chunk_index = s.chunk_size]
                     ELSE m
             ci2 == (m1.stack.chunk_index - s.elem_size) % SizeMod
             m2 == [m1 EXCEPT !.stack.chunk_index = ci2,
                              !.stack.element_count = (@ - 1) % SizeMod]
             top2 == m2.stack.top_chunk
             readable == top2 # NULL /\ top2 \in DOMAIN m2.heap /\ InBlock(s, ci2)
             m3 == IF ci2 = 0 /\ top2 \in DOMAIN m2.heap
                     THEN [FreeChunk(m2, top2) EXCEPT
                             !.stack.top_chunk = m2.heap[top2].next,
                             !.stack.chunk_index =
                               IF m2.heap[top2].next = NULL THEN 0 ELSE s.chunk_size]
                     ELSE m2
         IN IF ~dst THEN [m |-> m3, val |-> Uninit, wild |-> FALSE]
            ELSE IF readable
              THEN [m |-> m3, val |-> ReadSlot(m2, top2, ci2), wild |-> FALSE]
            ELSE [m |-> [m3 EXCEPT !.ub = TRUE], val |-> g, wild |-> TRUE]

\* BLI_stack_pop that copies from the chunk it has just freed
Mut_pop_ReadsFreedHead(m, dst, g) ==
  LET s == m.stack
      spent == s.chunk_index = 0
      old == s.top_chunk
  IN IF spent /\ old = NULL
       THEN [m |-> [m EXCEPT !.status = "aborted"], val |-> Uninit, wild |-> FALSE]
       ELSE
         LET m1 == IF spent
                     THEN [FreeChunk(m, old) EXCEPT
                             !.stack.top_chunk = m.heap[old].next,
                             !.stack.chunk_index = s.chunk_size]
                     ELSE m
             ci2 == (m1.stack.chunk_index - s.elem_size) % SizeMod
             m2 == [m1 EXCEPT !.stack.chunk_index = ci2,
                              !.stack.element_count = (@ - 1) % SizeMod]
             readable == old # NULL /\ old \in DOMAIN m2.heap /\ InBlock(s, ci2)
         IN IF ~dst THEN [m |-> m2, val |-> Uninit, wild |-> FALSE]
            ELSE IF readable
              THEN [m |-> m2, val |-> ReadSlot(m2, old, ci2), wild |-> FALSE]
            ELSE [m |-> [m2 EXCEPT !.ub = TRUE], val |-> g, wild |-> TRUE]

\* BLI_stack_pop: g is what a read outside any live block delivers
BLI_stack_pop(m, dst, g) ==
  LET s == m.stack
      spent == s.chunk_index = 0
      old == s.top_chunk
  IN IF spent /\ old = NULL
       THEN [m |-> [m EXCEPT !.status = "aborted"], val |-> Uninit, wild |-> FALSE]
       ELSE
         LET m1 == IF spent
                     THEN [FreeChunk(m, old) EXCEPT
                             !.stack.top_chunk = m.heap[old].next,
                             !.stack.chunk_index = s.chunk_size]
                     ELSE m
             ci2 == (m1.stack.chunk_index - s.elem_size) % SizeMod
             m2 == [m1 EXCEPT !.stack.chunk_index = ci2,
                              !.stack.element_count = (@ - 1) % SizeMod]
             top2 == m2.stack.top_chunk
             readable == top2 # NULL /\ top2 \in DOMAIN m2.heap /\ InBlock(s, ci2)
         IN IF ~dst THEN [m |-> m2, val |-> Uninit, wild |-> FALSE]
            ELSE IF readable
              THEN [m |-> m2, val |-> ReadSlot(m2, top2, ci2), wild |-> FALSE]
            ELSE [m |-> [m2 EXCEPT !.ub = TRUE], val |-> g, wild |-> TRUE]

\* BLI_stack_peek that retracts chunk_index to the slot it returns
Mut_peek_Retracts(m) ==
  IF m.stack.top_chunk = NULL
    THEN [m |-> [m EXCEPT !.status = "aborted"], ptr |-> [chunk |-> NULL, off |-> 0]]
    ELSE [m |-> [m EXCEPT !.stack.chunk_index = (@ - m.stack.elem_size) % SizeMod],
          ptr |-> [chunk |-> m.stack.top_chunk,
                   off |-> (m.stack.chunk_index - m.stack.elem_size) % SizeMod]]

\* BLI_stack_peek: the pointer &top_chunk->data[chunk_index - elem_size]
BLI_stack_peek(m) ==
  IF m.stack.top_chunk = NULL
    THEN [m |-> [m EXCEPT !.status = "aborted"], ptr |-> [chunk |-> NULL, off |-> 0]]
    ELSE [m |-> m,
          ptr |-> [chunk |-> m.stack.top_chunk,
                   off |-> (m.stack.chunk_index - m.stack.elem_size) % SizeMod]]

\* BLI_stack_discard that retracts the offset but forgets element_count--
Mut_discard_KeepsCount(m) ==
  LET s == m.stack
      spent == s.chunk_index = 0
      old == s.top_chunk
  IN IF spent /\ old = NULL
       THEN [m EXCEPT !.status = "aborted"]
       ELSE
         LET m1 == IF spent
                     THEN [FreeChunk(m, old) EXCEPT
                             !.stack.top_chunk = m.heap[old].next,
                             !.stack.chunk_index = s.chunk_size]
                     ELSE m
         IN [m1 EXCEPT !.stack.chunk_index = (@ - s.elem_size) % SizeMod]

\* BLI_stack_discard that unlinks the spent head without freeing it
Mut_discard_LeaksChunk(m) ==
  LET s == m.stack
      spent == s.chunk_index = 0
      old == s.top_chunk
  IN IF spent /\ old = NULL
       THEN [m EXCEPT !.status = "aborted"]
       ELSE
         LET m1 == IF spent
                     THEN [m EXCEPT !.stack.top_chunk = m.heap[old].next,
                                    !.stack.chunk_index = s.chunk_size]
                     ELSE m
         IN [m1 EXCEPT !.stack.chunk_index = (@ - s.elem_size) % SizeMod,
                       !.stack.element_count = (@ - 1) % SizeMod]

\* BLI_stack_discard
BLI_stack_discard(m) ==
  LET s == m.stack
      spent == s.chunk_index = 0
      old == s.top_chunk
  IN IF spent /\ old = NULL
       THEN [m EXCEPT !.status = "aborted"]
       ELSE
         LET m1 == IF spent
                     THEN [FreeChunk(m, old) EXCEPT
                             !.stack.top_chunk = m.heap[old].next,
                             !.stack.chunk_index = s.chunk_size]
                     ELSE m
         IN [m1 EXCEPT !.stack.chunk_index = (@ - s.elem_size) % SizeMod,
                       !.stack.element_count = (@ - 1) % SizeMod]

\* the chunk loop written as an `if`: only the head chunk is freed
Mut_FreeChunks_HeadOnly(m) ==
  IF m.stack.top_chunk = NULL \/ m.stack.top_chunk \notin DOMAIN m.heap
    THEN m
    ELSE [FreeChunk(m, m.stack.top_chunk) EXCEPT !.stack.top_chunk = NULL]

\* the while loop of BLI_stack_clear and BLI_stack_free: unlink and free each chunk
RECURSIVE FreeChunks(_)
FreeChunks(m) ==
  IF m.stack.top_chunk = NULL \/ m.stack.top_chunk \notin DOMAIN m.heap
    THEN (IF m.stack.top_chunk = NULL THEN m ELSE [m EXCEPT !.ub = TRUE, !.badfree = TRUE])
    ELSE LET old == m.stack.top_chunk
         IN FreeChunks([FreeChunk(m, old) EXCEPT !.stack.top_chunk = m.heap[old].next])

\* BLI_stack_clear
BLI_stack_clear(m) ==
  [FreeChunks(m) EXCEPT !.stack.chunk_index = 0, !.stack.element_count = 0]

\* BLI_stack_free: the chunks, then the handle
BLI_stack_free(m) ==
  LET m1 == FreeChunks(m)
  IN [m1 EXCEPT !.stack.top_chunk = m.stack.top_chunk, !.status = "freed"]

\* BLI_stack_pop_n: buf[i] receives the i-th pop, i = 0..n-1
RECURSIVE PopNLoop(_, _, _, _, _, _)
PopNLoop(m, buf, wild, i, n, g) ==
  IF i >= n \/ m.status # "ok" THEN [m |-> m, buf |-> buf, wild |-> wild]
  ELSE LET r == BLI_stack_pop(m, TRUE, g)
       IN PopNLoop(r.m, IF r.m.status = "ok" THEN [buf EXCEPT ![i] = r.val] ELSE buf,
                   wild \/ r.wild, i + 1, n, g)

BLI_stack_pop_n(m, n, g) == PopNLoop(m, [k \in 0..(n - 1) |-> Uninit], FALSE, 0, n, g)

\* BLI_stack_pop_n_reverse: buf[i - 1] receives the pop made at i = n..1
RECURSIVE PopNReverseLoop(_, _, _, _, _)
PopNReverseLoop(m, buf, wild, i, g) ==
  IF i <= 0 \/ m.status # "ok" THEN [m |-> m, buf |-> buf, wild |-> wild]
  ELSE LET r == BLI_stack_pop(m, TRUE, g)
       IN PopNReverseLoop(r.m, IF r.m.status = "ok" THEN [buf EXCEPT ![i - 1] = r.val] ELSE buf,
                          wild \/ r.wild, i - 1, g)

BLI_stack_pop_n_reverse(m, n, g) ==
  PopNReverseLoop(m, [k \in 0..(n - 1) |-> Uninit], FALSE, n, g)

\* BLI_stack_count
BLI_stack_count(s) == s.element_count

\* BLI_stack_is_empty
BLI_stack_is_empty(s) == s.element_count = 0

(* ------------------------------ actions -------------------------------- *)
NoPtr == [chunk |-> NULL, off |-> 0]
Out(op, dst, val, ptr, buf) == [op |-> op, dst |-> dst, val |-> val, ptr |-> ptr, buf |-> buf]

Install(m) ==
  /\ stack' = m.stack
  /\ heap' = m.heap
  /\ freed' = m.freed
  /\ status' = m.status
  /\ ub' = m.ub
  /\ badfree' = m.badfree

DropTop(q, n) == IF n >= Len(q) THEN <<>> ELSE SubSeq(q, 1, Len(q) - n)

\* the caller misuses the API in this step: fewer than n elements were pushed
\* and not yet removed
Misuse(n) == Len(shadow) < n

\* a run is followed up to and including its first call that misuses the API
\* and its first step with undefined behaviour, and no further: the state of
\* the program after either is not one the documented API promises anything
\* about
Running == status = "ok" /\ ~misuse /\ ~ub

\* the element counts tried for pop_n and pop_n_reverse: every count the stack
\* can serve, and the first it cannot
Counts == 0..(IF Len(shadow) < MaxElems THEN Len(shadow) + 1 ELSE MaxElems)

\* the values to try for a read outside the stack's memory: one when the call
\* makes no such read
Wild(r) == IF r.wild THEN Garbage ELSE {Uninit}

Init ==
  /\ \E es \in ElemSizes :
       \/ \E cs \in ChunkArgs : stack = BLI_stack_new_ex(es, cs)
       \/ stack = BLI_stack_new(es)
  /\ heap = <<>>
  /\ freed = {}
  /\ status = (IF stack.elem_size > 0 THEN "ok" ELSE "aborted")
  /\ ub = FALSE
  /\ badfree = FALSE
  /\ shadow = <<>>
  /\ misuse = FALSE
  /\ hist = "push"
  /\ pushed = <<>>
  /\ popped = <<>>
  /\ out = Out("new", FALSE, Uninit, NoPtr, <<>>)

\* room left under the bounds of the model for one more push
CanPush(m) ==
  /\ Len(shadow) < MaxElems
  /\ (m.stack.top_chunk = NULL \/ m.stack.chunk_index = m.stack.chunk_size)
        => NumAllocated(m) < MaxAllocs

Push ==
  /\ Running
  /\ CanPush(Machine)
  /\ \E v \in Values :
       LET r == BLI_stack_push(Machine, v)
       IN /\ Install(r.m)
          /\ shadow' = Append(shadow, [val |-> v, chunk |-> r.ptr.chunk, off |-> r.ptr.off])
          /\ out' = Out("push", FALSE, v, r.ptr, <<>>)
  /\ UNCHANGED <<misuse, hist, pushed, popped>>

PushR ==
  /\ Running
  /\ CanPush(Machine)
  /\ LET r == BLI_stack_push_r(Machine)
         v == IF InBlock(stack, r.ptr.off) THEN ReadSlot(r.m, r.ptr.chunk, r.ptr.off) ELSE Uninit
     IN /\ Install(r.m)
        /\ shadow' = Append(shadow, [val |-> v, chunk |-> r.ptr.chunk, off |-> r.ptr.off])
        /\ out' = Out("push_r", FALSE, Uninit, r.ptr, <<>>)
  /\ UNCHANGED <<misuse, hist, pushed, popped>>

Pop ==
  /\ Running
  /\ \E dst \in BOOLEAN :
     \E g \in Wild(BLI_stack_pop(Machine, dst, Uninit)) :
       LET r == BLI_stack_pop(Machine, dst, g)
       IN /\ Install(r.m)
          /\ out' = Out("pop", dst, r.val, NoPtr, <<>>)
  /\ shadow' = DropTop(shadow, 1)
  /\ misuse' = Misuse(1)
  /\ UNCHANGED <<hist, pushed, popped>>

Discard ==
  /\ Running
  /\ Install(BLI_stack_discard(Machine))
  /\ out' = Out("discard", FALSE, Uninit, NoPtr, <<>>)
  /\ shadow' = DropTop(shadow, 1)
  /\ misuse' = Misuse(1)
  /\ UNCHANGED <<hist, pushed, popped>>

Peek ==
  /\ Running
  /\ LET r == BLI_stack_peek(Machine)
     IN /\ Install(r.m)
        /\ out' = Out("peek", FALSE, Uninit, r.ptr, <<>>)
  /\ misuse' = Misuse(1)
  /\ UNCHANGED <<shadow, hist, pushed, popped>>

Clear ==
  /\ Running
  /\ Install(BLI_stack_clear(Machine))
  /\ out' = Out("clear", FALSE, Uninit, NoPtr, <<>>)
  /\ shadow' = <<>>
  /\ UNCHANGED <<misuse, hist, pushed, popped>>

PopN ==
  /\ Running
  /\ \E n \in Counts :
     \E g \in Wild(BLI_stack_pop_n(Machine, n, Uninit)) :
       /\ LET r == BLI_stack_pop_n(Machine, n, g)
          IN /\ Install(r.m)
             /\ out' = Out("pop_n", TRUE, Uninit, NoPtr, r.buf)
       /\ shadow' = DropTop(shadow, n)
       /\ misuse' = Misuse(n)
  /\ UNCHANGED <<hist, pushed, popped>>

PopNReverse ==
  /\ Running
  /\ \E n \in Counts :
     \E g \in Wild(BLI_stack_pop_n_reverse(Machine, n, Uninit)) :
       /\ LET r == BLI_stack_pop_n_reverse(Machine, n, g)
          IN /\ Install(r.m)
             /\ out' = Out("pop_n_reverse", TRUE, Uninit, NoPtr, r.buf)
       /\ shadow' = DropTop(shadow, n)
       /\ misuse' = Misuse(n)
  /\ UNCHANGED <<hist, pushed, popped>>

Free ==
  /\ Running
  /\ Install(BLI_stack_free(Machine))
  /\ out' = Out("free", FALSE, Uninit, NoPtr, <<>>)
  /\ UNCHANGED <<shadow, misuse, hist, pushed, popped>>

Count ==
  /\ Running
  /\ out' = Out("count", FALSE, BLI_stack_count(stack), NoPtr, <<>>)
  /\ UNCHANGED <<stack, heap, freed, status, ub, badfree, shadow, misuse, hist, pushed, popped>>

IsEmpty ==
  /\ Running
  /\ out' = Out("is_empty", FALSE, IF BLI_stack_is_empty(stack) THEN 1 ELSE 0, NoPtr, <<>>)
  /\ UNCHANGED <<stack, heap, freed, status, ub, badfree, shadow, misuse, hist, pushed, popped>>

Next ==
  \/ Push
  \/ PushR
  \/ Pop
  \/ Discard
  \/ Peek
  \/ Clear
  \/ PopN
  \/ PopNReverse
  \/ Free
  \/ Count
  \/ IsEmpty

Spec == Init /\ [][Next]_vars

\* BLI_stack_new_ex when malloc (line 25) returns null: the stores of lines
\* 26-30 go through the null handle
InitNoMem ==
  /\ \E es \in ElemSizes \ {0}, cs \in ChunkArgs : stack = BLI_stack_new_ex(es, cs)
  /\ heap = <<>>
  /\ freed = {}
  /\ status \in {"crashed", "ok"}
  /\ ub = TRUE
  /\ badfree = FALSE
  /\ shadow = <<>>
  /\ misuse = FALSE
  /\ hist = "push"
  /\ pushed = <<>>
  /\ popped = <<>>
  /\ out = Out("new_nomem", FALSE, Uninit, NoPtr, <<>>)

\* the push calls malloc
Grows(m) == m.stack.top_chunk = NULL \/ m.stack.chunk_index = m.stack.chunk_size

PushNoMem ==
  /\ Running
  /\ Grows(Machine)
  /\ \E v \in Values, fault \in BOOLEAN :
       LET r == BLI_stack_push_nomem(Machine, v, fault)
       IN /\ Install(r.m)
          /\ out' = Out("push_nomem", FALSE, v, r.ptr, <<>>)
  /\ UNCHANGED <<shadow, misuse, hist, pushed, popped>>

PushRNoMem ==
  /\ Running
  /\ Grows(Machine)
  /\ \E fault \in BOOLEAN :
       LET r == BLI_stack_push_r_nomem(Machine, fault)
       IN /\ Install(r.m)
          /\ out' = Out("push_r_nomem", FALSE, Uninit, r.ptr, <<>>)
  /\ UNCHANGED <<shadow, misuse, hist, pushed, popped>>

NextNoMem ==
  \/ Next
  \/ PushNoMem
  \/ PushRNoMem

SpecNoMem == (Init \/ InitNoMem) /\ [][NextNoMem]_vars

(* A run of BLI_stack_push calls on the fresh stack followed by BLI_stack_pop *)
(* calls into a buffer, never more pops than pushes: `pushed` and `popped`   *)
(* are the values passed in and the values delivered, in call order.         *)
RunPush ==
  /\ status = "ok"
  /\ hist = "push"
  /\ Len(pushed) < RunElems
  /\ \E v \in Values :
       LET r == BLI_stack_push(Machine, v)
       IN /\ Install(r.m)
          /\ shadow' = Append(shadow, [val |-> v, chunk |-> r.ptr.chunk, off |-> r.ptr.off])
          /\ out' = Out("push", FALSE, v, r.ptr, <<>>)
          /\ pushed' = Append(pushed, v)
  /\ UNCHANGED <<misuse, hist, popped>>

RunPop ==
  /\ status = "ok"
  /\ Len(popped) < Len(pushed)
  /\ \E g \in Wild(BLI_stack_pop(Machine, TRUE, Uninit)) :
       LET r == BLI_stack_pop(Machine, TRUE, g)
       IN /\ Install(r.m)
          /\ out' = Out("pop", TRUE, r.val, NoPtr, <<>>)
          /\ popped' = Append(popped, r.val)
  /\ shadow' = DropTop(shadow, 1)
  /\ hist' = "pop"
  /\ UNCHANGED <<misuse, pushed>>

RunNext ==
  \/ RunPush
  \/ RunPop

SpecRun == Init /\ [][RunNext]_vars

(* ------------------------------ properties ----------------------------- *)
Reverse(q) == [i \in 1..Len(q) |-> q[Len(q) - i + 1]]
Top(q) == q[Len(q)]

\* the chunks linked from top_chunk through next
RECURSIVE ChainFrom(_, _, _)
ChainFrom(h, c, seen) ==
  IF c = NULL \/ c \in seen \/ c \notin DOMAIN h THEN (IF c = NULL THEN seen ELSE seen \cup {c})
  ELSE ChainFrom(h, h[c].next, seen \cup {c})

Chain == ChainFrom(heap, stack.top_chunk, {})

\* C1: values pushed with BLI_stack_push onto the fresh stack come back from
\* successive BLI_stack_pop calls in reverse order, the i-th pop delivering
\* the i-th last value pushed, for every chunk size that holds an element.
C1_LifoOrder ==
  stack.chunk_size >= stack.elem_size =>
    \A i \in 1..Len(popped) : popped[i] = pushed[Len(pushed) - i + 1]

\* C2: on a non-empty stack that was never misused, BLI_stack_peek returns the
\* slot of the newest element still on the stack: the head chunk, at offset
\* chunk_index - elem_size.
C2_PeekIsTop ==
  (status = "ok" /\ ~misuse /\ BLI_stack_count(stack) > 0) =>
    LET r == BLI_stack_peek(Machine)
    IN /\ r.m.status = "ok"
       /\ r.ptr.chunk = Top(shadow).chunk
       /\ r.ptr.off = Top(shadow).off

\* C3: a pop, discard or peek called while count() = 0 fails by assertion and
\* leaves the stack, the chunks and the count as they were.
C3_EmptyCallsAbort ==
  [][(BLI_stack_count(stack) = 0 /\ out'.op \in {"pop", "discard", "peek"}) =>
       (status' = "aborted" /\ stack' = stack /\ heap' = heap /\ freed' = freed /\ ~ub')]_vars

\* C4: while no call took an element that was not there, count() is the number
\* of pushes minus the number of pops and discards, and is_empty() holds
\* exactly when that number is zero.
C4_CountConsistency ==
  (status = "ok" /\ ~misuse) =>
    /\ BLI_stack_count(stack) = Len(shadow)
    /\ BLI_stack_is_empty(stack) <=> (Len(shadow) = 0)

C4_Witness ==
  /\ status = "ok" /\ ~misuse
  /\ out.op \in {"pop", "discard"}
  /\ Len(shadow) = 2
  /\ freed # {}

\* C5: with two elements per chunk, five pushes and five pops end without an
\* error, deliver the five values in reverse, and leave every chunk freed.
C5_BoundaryCrossing ==
  (stack.chunk_size = 2 * stack.elem_size /\ Len(pushed) = 5 /\ Len(popped) = 5) =>
    /\ status = "ok" /\ ~ub
    /\ popped = Reverse(pushed)
    /\ Cardinality(freed) = NumAllocated(Machine)
    /\ DOMAIN heap = {}

\* C6: while the API is used as documented, chunk_index is a multiple of
\* elem_size within 0..chunk_size, and every slot handed out by push lies
\* inside the chunk_size bytes of its chunk.
C6_OffsetInvariant ==
  (status = "ok" /\ ~misuse) =>
    /\ stack.chunk_index % stack.elem_size = 0
    /\ stack.chunk_index >= 0 /\ stack.chunk_index <= stack.chunk_size
    /\ \A i \in 1..Len(shadow) : shadow[i].off + stack.elem_size <= stack.chunk_size

\* n calls of BLI_stack_pop into a buffer
RECURSIVE PopTimes(_, _, _)
PopTimes(m, n, g) ==
  IF n = 0 \/ m.status # "ok" THEN m ELSE PopTimes(BLI_stack_pop(m, TRUE, g).m, n - 1, g)

\* C7: from any state of a stack used as documented, BLI_stack_push(x) followed
\* at once by BLI_stack_pop(dst) leaves x in dst and count() as it was.
C7_RoundTrip ==
  (status = "ok" /\ ~misuse /\ ~ub) =>
    \A x \in Values, g \in Garbage :
      LET p == BLI_stack_push(Machine, x)
          q == BLI_stack_pop(p.m, TRUE, g)
      IN /\ q.m.status = "ok"
         /\ q.val = x
         /\ BLI_stack_count(q.m.stack) = BLI_stack_count(stack)

\* C8: from a state holding at least n elements, BLI_stack_pop_n delivers the n
\* topmost elements newest first, BLI_stack_pop_n_reverse delivers the same
\* elements oldest first, and both leave the stack as n single pops do.
C8_PopNOrders ==
  (status = "ok" /\ ~misuse /\ ~ub) =>
    \A n \in 0..Len(shadow), g \in Garbage :
      LET a == BLI_stack_pop_n(Machine, n, g)
          b == BLI_stack_pop_n_reverse(Machine, n, g)
          c == PopTimes(Machine, n, g)
          k == Len(shadow)
      IN /\ \A i \in 0..(n - 1) :
              /\ a.buf[i] = shadow[k - i].val
              /\ b.buf[i] = shadow[k - n + 1 + i].val
              /\ a.buf[i] = b.buf[n - 1 - i]
         /\ a.m = c
         /\ b.m = c

\* C9: BLI_stack_clear leaves the stack as BLI_stack_new_ex made it, with no
\* chunk resident, and changes nothing when the stack was already empty.
C9_ClearResets ==
  [][out'.op = "clear" =>
       /\ stack' = BLI_stack_new_ex(stack.elem_size, stack.chunk_size)
       /\ heap' = <<>>
       /\ BLI_stack_is_empty(stack) => (stack' = stack /\ heap' = heap /\ freed' = freed)]_vars

\* C10: no chunk is freed twice, no chunk linked from top_chunk is a freed one,
\* every chunk not yet freed is still linked, and once BLI_stack_clear or
\* BLI_stack_free has run every chunk ever allocated has been freed.
C10_ChunksFreedOnce ==
  /\ ~badfree
  /\ status # "freed" => (Chain \subseteq DOMAIN heap /\ DOMAIN heap \subseteq Chain)
  /\ out.op \in {"clear", "free"} =>
       (DOMAIN heap = {} /\ freed = 1..NumAllocated(Machine))

C10_Witness ==
  /\ out.op = "free"
  /\ Cardinality(freed) = 2
  /\ shadow # <<>>

\* C11: BLI_stack_peek on a non-empty stack changes neither the BLI_Stack
\* fields nor any chunk or its contents, a second peek returns the same slot,
\* and BLI_stack_count and BLI_stack_is_empty change nothing either.
C11_PeekChangesNothing ==
  [][/\ (out'.op = "peek" /\ BLI_stack_count(stack) > 0 /\ ~misuse') =>
          /\ stack' = stack /\ heap' = heap /\ freed' = freed
          /\ status' = "ok" /\ ub' = ub
          /\ BLI_stack_peek([stack |-> stack', heap |-> heap', freed |-> freed',
                             status |-> status', ub |-> ub',
                             badfree |-> badfree']).ptr = out'.ptr
          /\ BLI_stack_count(stack') = BLI_stack_count(stack)
     /\ (out'.op \in {"count", "is_empty"}) =>
          /\ stack' = stack /\ heap' = heap /\ freed' = freed
          /\ status' = status /\ ub' = ub
          /\ out'.op = "count" => out'.val = stack.element_count
          /\ out'.op = "is_empty" => (out'.val = 1 <=> stack.element_count = 0)]_vars

C11_Witness ==
  /\ out.op = "peek" /\ status = "ok" /\ ~misuse
  /\ Len(shadow) = 2
  /\ Cardinality(DOMAIN heap) = 2

\* C12: a push (BLI_stack_push or BLI_stack_push_r, growing or not) leaves
\* every chunk that existed linked as it was and every stored slot except the
\* newly reserved one with its bytes, keeps every element already on the
\* stack in its chunk at its offset, and hands out a slot that overlaps none
\* of them; elem_size, chunk_size and the freed blocks do not change.
C12_PushKeepsElements ==
  [][(out'.op \in {"push", "push_r"}) =>
       /\ stack'.elem_size = stack.elem_size
       /\ stack'.chunk_size = stack.chunk_size
       /\ stack'.element_count = stack.element_count + 1
       /\ freed' = freed
       /\ \A c \in DOMAIN heap :
            /\ c \in DOMAIN heap'
            /\ heap'[c].next = heap[c].next
            /\ \A off \in DOMAIN heap[c].data :
                 (c # out'.ptr.chunk \/ off # out'.ptr.off) =>
                   /\ off \in DOMAIN heap'[c].data
                   /\ heap'[c].data[off] = heap[c].data[off]
       /\ \A i \in 1..Len(shadow) :
            /\ shadow'[i] = shadow[i]
            /\ shadow[i].chunk \in DOMAIN heap'
            /\ \/ shadow[i].chunk # out'.ptr.chunk
               \/ shadow[i].off + stack.elem_size <= out'.ptr.off
               \/ out'.ptr.off + stack.elem_size <= shadow[i].off]_vars

C12_Witness ==
  /\ out.op = "push" /\ status = "ok" /\ ~ub
  /\ Len(shadow) = 3
  /\ Cardinality(DOMAIN heap) = 2
  /\ out.ptr.off = 0

\* C13: in every state reached with the preconditions respected where the
\* stack is non-empty and chunk_index is 0, BLI_stack_pop with a destination
\* frees the old head, makes its successor the head, and copies from a slot
\* inside that successor, which is allocated, not freed and not null: the
\* slot of the top element.
C13_PopReadsLiveHead ==
  (status = "ok" /\ ~misuse /\ stack.element_count > 0 /\ stack.chunk_index = 0) =>
    \A g \in Garbage :
      LET r == BLI_stack_pop(Machine, TRUE, g)
          old == stack.top_chunk
          head == r.m.stack.top_chunk
      IN /\ r.m.status = "ok"
         /\ r.m.freed = freed \cup {old}
         /\ old \notin DOMAIN r.m.heap
         /\ head = heap[old].next
         /\ head # NULL /\ head # old
         /\ head \in DOMAIN r.m.heap /\ head \notin r.m.freed
         /\ InBlock(stack, r.m.stack.chunk_index)
         /\ ~r.wild /\ r.m.ub = ub
         /\ Top(shadow).chunk = head /\ Top(shadow).off = r.m.stack.chunk_index
         /\ r.val = ReadSlot(Machine, head, r.m.stack.chunk_index)

C13_Witness ==
  /\ out.op = "pop" /\ out.dst /\ out.val \in Values
  /\ status = "ok" /\ ~misuse /\ ~ub
  /\ Cardinality(freed) = 1 /\ Cardinality(DOMAIN heap) = 1
  /\ Len(shadow) = 1
  /\ stack.chunk_size = 2 * stack.elem_size
  /\ stack.chunk_index = stack.chunk_size - stack.elem_size

\* C14: in every state reached with the preconditions respected where the
\* stack is non-empty, BLI_stack_discard and BLI_stack_pop with a null
\* destination leave the same top_chunk, chunk_index, element_count, chunks
\* and freed blocks, and the pop delivers no bytes to the caller.
C14_DiscardIsPopNull ==
  (status = "ok" /\ ~misuse /\ stack.element_count > 0) =>
    \A g \in Garbage :
      LET p == BLI_stack_pop(Machine, FALSE, g)
          d == BLI_stack_discard(Machine)
      IN /\ d.stack = p.m.stack
         /\ d.freed = p.m.freed
         /\ d.heap = p.m.heap
         /\ d.status = "ok" /\ p.m.status = "ok"
         /\ d.ub = ub /\ p.m.ub = ub
         /\ p.val = Uninit /\ ~p.wild
         /\ d.stack.element_count = stack.element_count - 1

C14_Witness ==
  /\ out.op = "discard"
  /\ status = "ok" /\ ~misuse /\ ~ub
  /\ Cardinality(freed) = 1 /\ Cardinality(DOMAIN heap) = 1
  /\ Len(shadow) = 1
  /\ stack.chunk_size = 2 * stack.elem_size
  /\ stack.chunk_index = stack.chunk_size - stack.elem_size

\* C15: a newly created stack has no chunk; a push or push_r allocates one
\* block exactly when top_chunk is null or chunk_index equals chunk_size, and
\* then the new block is the head, its successor is the old head and the slot
\* handed out is at offset 0; otherwise nothing is allocated and the slot is
\* at chunk_index of the unchanged head, in particular when the stack is empty
\* but its spent chunk is still linked.
C15_LazyAllocation ==
  /\ [](out.op = "new" => (heap = <<>> /\ freed = {} /\ stack.top_chunk = NULL
                            /\ stack.chunk_index = 0 /\ stack.element_count = 0))
  /\ [][(out'.op \in {"push", "push_r"}) =>
          LET grow == stack.top_chunk = NULL \/ stack.chunk_index = stack.chunk_size
              head == stack'.top_chunk
          IN /\ grow =>
                  /\ head \notin DOMAIN heap /\ head \notin freed /\ head # NULL
                  /\ DOMAIN heap' = DOMAIN heap \cup {head}
                  /\ heap'[head].next = stack.top_chunk
                  /\ out'.ptr = [chunk |-> head, off |-> 0]
                  /\ stack'.chunk_index = stack.elem_size
             /\ ~grow =>
                  /\ DOMAIN heap' = DOMAIN heap
                  /\ head = stack.top_chunk
                  /\ out'.ptr = [chunk |-> head, off |-> stack.chunk_index]
                  /\ stack'.chunk_index = stack.chunk_index + stack.elem_size
             /\ (stack.element_count = 0 /\ stack.top_chunk # NULL) => ~grow
             /\ freed' = freed]_vars

C15_Witness ==
  /\ out.op = "push" /\ status = "ok" /\ ~ub
  /\ Len(shadow) = 1
  /\ freed = {2} /\ DOMAIN heap = {1}
  /\ out.ptr = [chunk |-> 1, off |-> 0]

\* C16: a pop or discard of a non-empty stack frees a block exactly when
\* chunk_index is 0 at entry: it then frees the head and nothing else, makes
\* the head's successor the head and leaves chunk_index at chunk_size -
\* elem_size; otherwise it frees nothing, keeps the head and lowers
\* chunk_index by elem_size, and a head whose chunk_index it brings to 0
\* stays allocated and linked.
C16_FreeOnRetraction ==
  [][(out'.op \in {"pop", "discard"} /\ ~misuse') =>
       LET spent == stack.chunk_index = 0
           old == stack.top_chunk
       IN /\ spent =>
               /\ old \in DOMAIN heap
               /\ freed' = freed \cup {old} /\ old \notin freed
               /\ DOMAIN heap' = DOMAIN heap \ {old}
               /\ stack'.top_chunk = heap[old].next
               /\ stack'.chunk_index = stack.chunk_size - stack.elem_size
          /\ ~spent =>
               /\ freed' = freed
               /\ DOMAIN heap' = DOMAIN heap
               /\ stack'.top_chunk = old
               /\ stack'.chunk_index = stack.chunk_index - stack.elem_size
          /\ stack'.chunk_index = 0 =>
               (stack'.top_chunk # NULL /\ stack'.top_chunk \in DOMAIN heap')
          /\ stack'.element_count = stack.element_count - 1
          /\ status' = "ok"]_vars

C16_Witness ==
  /\ out.op = "pop" /\ status = "ok" /\ ~misuse /\ ~ub
  /\ stack.chunk_index = 0
  /\ Cardinality(DOMAIN heap) = 2 /\ freed = {}
  /\ Len(shadow) = 2

\* C17: when the malloc of a chunk inside push or push_r returns null, the
\* call ends in an abort with top_chunk, chunk_index and element_count as
\* they were, no chunk changed, and no store through the null pointer.
C17_AllocFailureAborts ==
  [][(out'.op \in {"push_nomem", "push_r_nomem"}) =>
       /\ status' = "aborted"
       /\ stack' = stack
       /\ heap' = heap /\ freed' = freed
       /\ ~ub']_vars

\* C18: when chunk_size is a positive multiple of elem_size, in every state
\* reached with the preconditions respected either no chunk is linked and
\* element_count and chunk_index are 0, or element_count equals (linked
\* chunks - 1) * (chunk_size / elem_size) + chunk_index / elem_size; the
\* linked chunks are exactly the allocated ones.
C18_ChunkStructure ==
  (status = "ok" /\ ~misuse /\ stack.chunk_size > 0
     /\ stack.chunk_size % stack.elem_size = 0) =>
    /\ Chain = DOMAIN heap
    /\ stack.chunk_index % stack.elem_size = 0
    /\ IF stack.top_chunk = NULL
         THEN heap = <<>> /\ stack.element_count = 0 /\ stack.chunk_index = 0
         ELSE stack.element_count =
                (Cardinality(Chain) - 1) * (stack.chunk_size \div stack.elem_size)
                  + stack.chunk_index \div stack.elem_size

C18_Witness ==
  /\ status = "ok" /\ ~misuse /\ ~ub
  /\ stack.chunk_size = 2 * stack.elem_size
  /\ Cardinality(Chain) = 2
  /\ stack.chunk_index = 0
  /\ stack.element_count = 2
  /\ out.op = "discard"

====
